---- MODULE Spec2Model ----
(***************************************************************************)
(* A model of the terminal editor of src/unnamed/part_001: the raw-mode    *)
(* terminal session (enableRawMode / disableRawMode / die), the key reader *)
(* (editorReadKey), the append buffer (abAppend / abFree), the renderer    *)
(* (editorDrawRows / editorRefreshScreen) and the session loop (main).     *)
(* Byte strings are sequences of byte values 0..255.                       *)
(***************************************************************************)
EXTENDS Integers, Sequences, FiniteSets, TLC

VARIABLES
    pc,            \* position of the single thread of control
    term,          \* the attributes the terminal device currently has
    orig_termios,  \* E.orig_termios, the captured snapshot
    hook,          \* atexit list: "none", "registered" or "called"
    exitCode,      \* argument of the latest exit() call, -1 before any
    cx,            \* E.cx
    cy,            \* E.cy
    screenrows,    \* E.screenrows
    screencols,    \* E.screencols
    ab,            \* struct abuf of the frame being rendered
    drawn,         \* the (s, len) arguments of this frame's abAppend calls
    lastWrite,     \* the bytes handed to the latest write(STDOUT_FILENO, ...)
    log,           \* system calls with an outside effect, in order
    rd,            \* result of the latest read() of the current editorReadKey
    consumed,      \* input bytes taken by the current editorReadKey call
    key            \* the value editorReadKey returned (a char)

vars == << pc, term, orig_termios, hook, exitCode, cx, cy, screenrows,
           screencols, ab, drawn, lastWrite, log, rd, consumed, key >>

(***************************************************************************)
(* Bounds of the model.                                                    *)
(***************************************************************************)
\* frames rendered by one run of the session loop
MaxFrames == 2
\* largest ws_row the window-size ioctl reports in a session
MaxWsRow == 1
\* largest ws_col the window-size ioctl reports in a session
MaxWsCol == 2
\* largest screenrows of the render-only specification
MaxRows == 4
\* largest small screencols of the render-only specification
MaxCols == 3
\* abAppend calls made on one buffer in the append-only specification
MaxAppends == 3
\* enableRawMode / disableRawMode pairs of the raw-mode-only specification
MaxPairs == 2

(***************************************************************************)
(* Bytes and the escape sequences the program writes.                      *)
(***************************************************************************)
ESC == 27

\* CTRL_KEY(letter): letter & 0x1f
CTRL_KEY(letter) == letter % 32

\* a reader that keeps only the low seven bits of a byte
CharOf_Strip(b) == b % 128

\* a char holds a byte as a signed 8-bit value; ByteOf gives the byte back
CharOf(b) == IF b >= 128 THEN b - 256 ELSE b

ByteOf(c) == c % 256

\* "\x1b[2J"
ClearScreen == << 27, 91, 50, 74 >>

\* "\x1b[H"
CursorHome == << 27, 91, 72 >>

\* the first abAppend of editorRefreshScreen: "\x1[?25l", 6 bytes. The hex
\* escape \x1 ends at '[', so the literal is the byte 1 followed by "[?25l".
HideCursor == << 1, 91, 63, 50, 53, 108 >>

\* "\x1b[?25h"
ShowCursor == << 27, 91, 63, 50, 53, 104 >>

\* "\x1b[K"
EraseLine == << 27, 91, 75 >>

\* "\r\n"
CRLF == << 13, 10 >>

\* "~"
Tilde == << 126 >>

\* " "
Space == << 32 >>

\* "\x1b[999C\x1b[999B"
FarCorner == << 27, 91, 57, 57, 57, 67, 27, 91, 57, 57, 57, 66 >>

\* "\x1b[6n"
QueryCursor == << 27, 91, 54, 110 >>

\* RYEDOC_VERSION "0.0.1"
RYEDOC_VERSION == << 48, 46, 48, 46, 49 >>

\* the format "RyeRye editor --version %s" with %s filled in
WelcomeText ==
    << 82, 121, 101, 82, 121, 101, 32, 101, 100, 105, 116, 111, 114, 32,
       45, 45, 118, 101, 114, 115, 105, 111, 110, 32 >> \o RYEDOC_VERSION

\* sizeof(welcome)
WelcomeSize == 80

Min(a, b) == IF a < b THEN a ELSE b

\* snprintf(buf, size, ...) of text: what is stored (at most size-1 bytes)
\* and what is returned (the length the whole text would have)
SnprintfStored(size, text) == SubSeq(text, 1, Min(Len(text), size - 1))

SnprintfReturn(size, text) == Len(text)

RECURSIVE Digits(_)
Digits(n) == IF n < 10 THEN << 48 + n >> ELSE Digits(n \div 10) \o << 48 + (n % 10) >>

\* printf's %d
FormatInt(n) == IF n < 0 THEN << 45 >> \o Digits(0 - n) ELSE Digits(n)

\* sizeof(buf) of editorRefreshScreen
PosBufSize == 32

\* snprintf(buf, sizeof(buf), "\x1b[%d;%dH", row, col) followed by strlen(buf)
CursorPos(row, col) ==
    SnprintfStored(PosBufSize,
        << 27, 91 >> \o FormatInt(row) \o << 59 >> \o FormatInt(col) \o << 72 >>)

(***************************************************************************)
(* Terminal attributes: struct termios as the sets of flags that are set   *)
(* and the two control characters the program touches.  CS8 is a two-bit   *)
(* field of c_cflag.                                                       *)
(***************************************************************************)
CS8 == { "CSIZE_LO", "CSIZE_HI" }

\* the attribute sets a terminal has when the program starts; vintr and
\* veof stand for the control characters the program does not touch
InitialTermios ==
    { [ iflag |-> { "BRKINT", "ICRNL", "IXON", "IMAXBEL" },
        oflag |-> { "OPOST", "ONLCR" },
        cflag |-> { "CREAD", "CSIZE_LO", "CSIZE_HI" },
        lflag |-> { "ECHO", "ICANON", "IEXTEN", "ISIG", "ECHOE" },
        vmin  |-> 1, vtime |-> 0, vintr |-> 3, veof |-> 4 ],
      [ iflag |-> { "INPCK", "ISTRIP", "ICRNL", "IGNBRK" },
        oflag |-> { "OPOST" },
        cflag |-> { "CREAD", "PARENB", "CSIZE_HI" },
        lflag |-> { "ECHO", "ICANON", "ISIG" },
        vmin  |-> 4, vtime |-> 2, vintr |-> 3, veof |-> 26 ] }

\* struct termios of a zero-initialised global
ZeroTermios ==
    [ iflag |-> {}, oflag |-> {}, cflag |-> {}, lflag |-> {},
      vmin |-> 0, vtime |-> 0, vintr |-> 0, veof |-> 0 ]

\* a raw configuration that leaves the signal keys on
RawOf_KeepsISIG(t) ==
    [ t EXCEPT !.iflag = t.iflag \ { "BRKINT", "ICRNL", "INPCK", "ISTRIP", "IXON" },
               !.oflag = t.oflag \ { "OPOST" },
               !.cflag = t.cflag \cup CS8,
               !.lflag = t.lflag \ { "ECHO", "ICANON", "IEXTEN" },
               !.vmin  = 0,
               !.vtime = 1 ]

\* the configuration enableRawMode derives from the snapshot: a copy of it
\* with flags cleared, CS8 set and two control characters assigned
RawOf(t) ==
    [ t EXCEPT !.iflag = t.iflag \ { "BRKINT", "ICRNL", "INPCK", "ISTRIP", "IXON" },
               !.oflag = t.oflag \ { "OPOST" },
               !.cflag = t.cflag \cup CS8,
               !.lflag = t.lflag \ { "ECHO", "ICANON", "IEXTEN", "ISIG" },
               !.vmin  = 0,
               !.vtime = 1 ]

(***************************************************************************)
(* The append buffer.                                                      *)
(***************************************************************************)
\* ABUF_INIT {NULL, 0}
ABUF_INIT == [ b |-> << >>, len |-> 0 ]

\* an append that counts the bytes before it knows realloc gave a block
abAppend_CountsFirst(buf, s, ok) ==
    IF ~ok
    THEN [ b |-> buf.b, len |-> buf.len + Len(s) ]
    ELSE [ b |-> SubSeq(buf.b, 1, buf.len) \o s, len |-> buf.len + Len(s) ]

\* abAppend(ab, s, len) with s already cut to its first len bytes; ok tells
\* whether realloc returned a block
abAppend(buf, s, ok) ==
    IF ~ok
    THEN buf
    ELSE [ b |-> SubSeq(buf.b, 1, buf.len) \o s, len |-> buf.len + Len(s) ]

\* which realloc calls of a frame fail: none, the k-th alone, or every one
\* from the k-th on
AllocModes == { "none", "one", "rest" }

ReallocFails(mode, k, i) ==
    CASE mode = "one"  -> i = k
      [] mode = "rest" -> i >= k
      [] OTHER         -> FALSE

\* the abAppend calls lo..hi of a list, in order (split in halves, the
\* first half evaluated before the second, to keep the evaluation shallow;
\* abAppend never shortens a buffer, so the test on left.len always passes);
\* realloc returns NULL in the calls that ReallocFails names
RECURSIVE AppendRange(_, _, _, _, _, _)
AppendRange(buf, calls, lo, hi, mode, k) ==
    IF lo > hi THEN buf
    ELSE IF lo = hi THEN abAppend(buf, calls[lo], ~ReallocFails(mode, k, lo))
    ELSE LET mid  == (lo + hi) \div 2
             left == AppendRange(buf, calls, lo, mid, mode, k)
         IN  IF left.len >= buf.len
             THEN AppendRange(left, calls, mid + 1, hi, mode, k)
             ELSE left

AppendAll(buf, calls, mode, k) == AppendRange(buf, calls, 1, Len(calls), mode, k)

(***************************************************************************)
(* The renderer, as the list of abAppend arguments it issues.              *)
(***************************************************************************)
\* while (padding--) abAppend(ab, " ", 1);
PaddingCalls(padding) == [ i \in 1..padding |-> Space ]

\* a banner row whose tilde does not use up one unit of the padding
WelcomeCalls_NoDecrement(cols) ==
    LET welcome    == SnprintfStored(WelcomeSize, WelcomeText)
        ret        == SnprintfReturn(WelcomeSize, WelcomeText)
        welcomelen == IF ret > cols THEN cols ELSE ret
        padding    == (cols - welcomelen) \div 2
    IN  (IF padding # 0
         THEN << Tilde >> \o PaddingCalls(padding)
         ELSE PaddingCalls(padding))
        \o << SubSeq(welcome, 1, welcomelen) >>

\* the banner row of editorDrawRows
WelcomeCalls(cols) ==
    LET welcome    == SnprintfStored(WelcomeSize, WelcomeText)
        ret        == SnprintfReturn(WelcomeSize, WelcomeText)
        welcomelen == IF ret > cols THEN cols ELSE ret
        padding    == (cols - welcomelen) \div 2
    IN  (IF padding # 0
         THEN << Tilde >> \o PaddingCalls(padding - 1)
         ELSE PaddingCalls(padding))
        \o << SubSeq(welcome, 1, welcomelen) >>

\* a row loop that ends every row, the last one too, with "\r\n"
RowCalls_AlwaysCRLF(y, rows, cols) ==
    (IF y = rows \div 3 THEN WelcomeCalls(cols) ELSE << Tilde >>)
    \o << EraseLine >>
    \o << CRLF >>

\* one iteration of the loop of editorDrawRows
RowCalls(y, rows, cols) ==
    (IF y = rows \div 3 THEN WelcomeCalls(cols) ELSE << Tilde >>)
    \o << EraseLine >>
    \o (IF y < rows - 1 THEN << CRLF >> ELSE << >>)

RECURSIVE DrawRowsFrom(_, _, _)
DrawRowsFrom(y, rows, cols) ==
    IF y < rows
    THEN RowCalls(y, rows, cols) \o DrawRowsFrom(y + 1, rows, cols)
    ELSE << >>

editorDrawRows(rows, cols) == DrawRowsFrom(0, rows, cols)

\* the abAppend calls of editorRefreshScreen
RefreshCalls(rows, cols, x, y) ==
    << HideCursor, CursorHome >>
    \o editorDrawRows(rows, cols)
    \o << CursorPos(y + 1, x + 1), ShowCursor >>

(***************************************************************************)
(* The key reader.                                                         *)
(***************************************************************************)
\* the input bytes the model feeds: Ctrl-Q, ESC, '[', 'A'..'D', 'h', 0xC8
Bytes == { 17, 27, 91, 65, 66, 67, 68, 104, 200 }

NoRead == [ n |-> 0 - 2, c |-> 0, errno |-> "none" ]

\* what one read(STDIN_FILENO, &c, 1) can give: one byte, nothing within the
\* timeout, or -1 with errno EAGAIN or another error
ReadResults ==
    { [ n |-> 1, c |-> b, errno |-> "none" ] : b \in Bytes }
    \cup { [ n |-> 0, c |-> 0, errno |-> "none" ],
           [ n |-> 0 - 1, c |-> 0, errno |-> "EAGAIN" ],
           [ n |-> 0 - 1, c |-> 0, errno |-> "EIO" ] }

\* a decoder with the cases of 'A' and 'B' exchanged
DecodeSeq_Swapped(seq0, seq1) ==
    IF seq0 = 91
    THEN CASE seq1 = 65 -> 107
           [] seq1 = 66 -> 106
           [] seq1 = 67 -> 108
           [] seq1 = 68 -> 104
           [] OTHER -> 27
    ELSE 27

\* the decoding of the two bytes that follow an escape byte
DecodeSeq(seq0, seq1) ==
    IF seq0 = 91
    THEN CASE seq1 = 65 -> 106
           [] seq1 = 66 -> 107
           [] seq1 = 67 -> 108
           [] seq1 = 68 -> 104
           [] OTHER -> ESC
    ELSE ESC

(***************************************************************************)
(* Log entries and the pieces of die() and exit().                         *)
(***************************************************************************)
Ev(ev, arg, ret) == [ ev |-> ev, arg |-> arg, ret |-> ret ]

\* die(s) up to its call of exit: two writes and perror
DieLog(l, s) ==
    l \o << Ev("write", "clear", "-"), Ev("write", "home", "-"), Ev("perror", s, "-") >>

\* a build whose enableRawMode never registered the handler
ExitPc_NoHook(h) == "done"

\* where exit() goes first: to the registered handler, if there is one
ExitPc(h) == IF h = "registered" THEN "atexit" ELSE "done"

\* exit() called again while the handlers of an earlier exit() are running
\* has undefined behaviour; the C libraries either finish the remaining
\* handlers and end the process, or trap the recursive call
NestedExitOutcomes == { "handlers_done", "trap" }

FrameCount(l) == Cardinality({ i \in 1..Len(l) : l[i].ev = "write" /\ l[i].arg = "frame" })

(***************************************************************************)
(* The window size.                                                        *)
(***************************************************************************)
IsDigit(b) == b >= 48 /\ b <= 57

IsSpace(b) == b = 32 \/ (b >= 9 /\ b <= 13)

RECURSIVE SkipSpace(_, _)
SkipSpace(s, i) == IF i <= Len(s) /\ IsSpace(s[i]) THEN SkipSpace(s, i + 1) ELSE i

RECURSIVE ScanDigits(_, _, _)
ScanDigits(s, i, acc) ==
    IF i <= Len(s) /\ IsDigit(s[i])
    THEN ScanDigits(s, i + 1, acc * 10 + (s[i] - 48))
    ELSE [ val |-> acc, next |-> i ]

\* sscanf's %d at position i of s
ScanInt(s, i) ==
    LET j   == SkipSpace(s, i)
        neg == j <= Len(s) /\ s[j] = 45
        k   == IF j <= Len(s) /\ (s[j] = 45 \/ s[j] = 43) THEN j + 1 ELSE j
        r   == ScanDigits(s, k, 0)
    IN  [ ok |-> r.next > k, val |-> IF neg THEN 0 - r.val ELSE r.val, next |-> r.next ]

\* sscanf(str, "%d;%d", rows, cols): the number of conversions stored and
\* the values of *rows and *cols afterwards
Sscanf2(str, rows, cols) ==
    LET a == ScanInt(str, 1)
        b == ScanInt(str, a.next + 1)
    IN  IF ~a.ok THEN [ n |-> 0, rows |-> rows, cols |-> cols ]
        ELSE IF ~(a.next <= Len(str) /\ str[a.next] = 59) \/ ~b.ok
             THEN [ n |-> 1, rows |-> a.val, cols |-> cols ]
             ELSE [ n |-> 2, rows |-> a.val, cols |-> b.val ]

\* sizeof(buf) of getCursorPosition
ReplyBufSize == 32

\* the loop of getCursorPosition: the bytes read before an 'R', a failed
\* read or the end of buf; reply is what the terminal sends before reads
\* start to time out
RECURSIVE ReplyBuf(_, _)
ReplyBuf(reply, i) ==
    IF i < ReplyBufSize - 1 /\ i + 1 <= Len(reply) /\ reply[i + 1] # 82
    THEN ReplyBuf(reply, i + 1)
    ELSE SubSeq(reply, 1, i)

\* getCursorPosition(rows, cols): wret is what the write of the query
\* returned; the result is the return value and *rows, *cols afterwards
getCursorPosition(wret, reply, rows, cols) ==
    LET buf == ReplyBuf(reply, 0)
        sc  == Sscanf2(SubSeq(buf, 3, Len(buf)), rows, cols)
    IN  IF wret # 4 THEN [ ret |-> 0 - 1, rows |-> rows, cols |-> cols ]
        ELSE IF Len(buf) < 1 \/ buf[1] # ESC \/ Len(buf) < 2 \/ buf[2] # 91
             THEN [ ret |-> 0 - 1, rows |-> rows, cols |-> cols ]
             ELSE IF sc.n # 2
                  THEN [ ret |-> 0 - 1, rows |-> sc.rows, cols |-> sc.cols ]
                  ELSE [ ret |-> 0 - 1, rows |-> sc.rows, cols |-> sc.cols ]

\* what ioctl(STDOUT_FILENO, TIOCGWINSZ, &ws) can give
IoctlResults ==
    { [ ret |-> 0 - 1, ws_row |-> 0, ws_col |-> 0 ] }
    \cup { [ ret |-> 0, ws_row |-> r, ws_col |-> c ] : r \in 0..MaxWsRow, c \in 0..MaxWsCol }

\* what the terminal answers to the cursor-position query: nothing,
\* "\x1b[2;3R", "\x1b[2R", "\x1b[1;1" and "x"
Replies ==
    { << >>, << 27, 91, 50, 59, 51, 82 >>, << 27, 91, 50, 82 >>,
      << 27, 91, 49, 59, 49 >>, << 120 >> }

\* getWindowSize(rows, cols): io is the ioctl's outcome, w1 and w2 what the
\* two writes of the fallback return
getWindowSize(io, w1, w2, reply, rows, cols) ==
    IF io.ret = 0 - 1 \/ io.ws_col = 0
    THEN IF w1 # 12
         THEN [ ret |-> 0 - 1, rows |-> rows, cols |-> cols ]
         ELSE getCursorPosition(w2, reply, rows, cols)
    ELSE [ ret |-> 0, rows |-> io.ws_row, cols |-> io.ws_col ]

\* the writes getWindowSize makes
WindowSizeLog(io, w1) ==
    IF io.ret = 0 - 1 \/ io.ws_col = 0
    THEN IF w1 # 12
         THEN << Ev("write", "far", "-") >>
         ELSE << Ev("write", "far", "-"), Ev("write", "query", "-") >>
    ELSE << >>

(***************************************************************************)
(* The state after construction: nothing has run, the globals are zero.    *)
(***************************************************************************)
Init ==
    /\ pc = "main"
    /\ term \in InitialTermios
    /\ orig_termios = ZeroTermios
    /\ hook = "none"
    /\ exitCode = 0 - 1
    /\ cx = 0
    /\ cy = 0
    /\ screenrows = 0
    /\ screencols = 0
    /\ ab = ABUF_INIT
    /\ drawn = << >>
    /\ lastWrite = << >>
    /\ log = << >>
    /\ rd = NoRead
    /\ consumed = << >>
    /\ key = 0

(***************************************************************************)
(* enableRawMode(): capture, register the exit hook, apply the raw         *)
(* configuration.  getOk and setOk are the outcomes of tcgetattr and       *)
(* tcsetattr; a failed tcsetattr changes nothing of the terminal.          *)
(***************************************************************************)
\* an enableRawMode that registers the exit hook before it calls tcgetattr
enableRawMode_HookFirst ==
    /\ pc = "main"
    /\ \E getOk \in BOOLEAN, setOk \in BOOLEAN :
          IF ~getOk
          THEN /\ log' = DieLog(log, "tcgetattr") \o << Ev("exit", "1", "-") >>
               /\ lastWrite' = CursorHome
               /\ exitCode' = 1
               /\ pc' = ExitPc("registered")
               /\ hook' = "registered"
               /\ UNCHANGED << term, orig_termios >>
          ELSE /\ orig_termios' = term
               /\ hook' = "registered"
               /\ IF setOk
                  THEN /\ term' = RawOf(term)
                       /\ log' = Append(log, Ev("tcsetattr", "raw", "ok"))
                       /\ pc' = "initEditor"
                       /\ UNCHANGED << lastWrite, exitCode >>
                  ELSE /\ log' = DieLog(Append(log, Ev("tcsetattr", "raw", "fail")),
                                        "tcsetattr")
                                 \o << Ev("exit", "1", "-") >>
                       /\ lastWrite' = CursorHome
                       /\ exitCode' = 1
                       /\ pc' = ExitPc("registered")
                       /\ UNCHANGED term
    /\ UNCHANGED << cx, cy, screenrows, screencols, ab, drawn, rd, consumed, key >>

enableRawMode ==
    /\ pc = "main"
    /\ \E getOk \in BOOLEAN, setOk \in BOOLEAN :
          IF ~getOk
          THEN /\ log' = DieLog(log, "tcgetattr") \o << Ev("exit", "1", "-") >>
               /\ lastWrite' = CursorHome
               /\ exitCode' = 1
               /\ pc' = ExitPc(hook)
               /\ UNCHANGED << term, orig_termios, hook >>
          ELSE /\ orig_termios' = term
               /\ hook' = "registered"
               /\ IF setOk
                  THEN /\ term' = RawOf(term)
                       /\ log' = Append(log, Ev("tcsetattr", "raw", "ok"))
                       /\ pc' = "initEditor"
                       /\ UNCHANGED << lastWrite, exitCode >>
                  ELSE /\ log' = DieLog(Append(log, Ev("tcsetattr", "raw", "fail")),
                                        "tcsetattr")
                                 \o << Ev("exit", "1", "-") >>
                       /\ lastWrite' = CursorHome
                       /\ exitCode' = 1
                       /\ pc' = ExitPc("registered")
                       /\ UNCHANGED term
    /\ UNCHANGED << cx, cy, screenrows, screencols, ab, drawn, rd, consumed, key >>

(***************************************************************************)
(* initEditor(): the cursor at the origin, then the window size or die.    *)
(***************************************************************************)
initEditor ==
    /\ pc = "initEditor"
    /\ cx' = 0
    /\ cy' = 0
    /\ \E io \in IoctlResults, w1 \in { 12, 0 - 1 }, w2 \in { 4, 0 - 1 }, reply \in Replies :
          LET ws == getWindowSize(io, w1, w2, reply, screenrows, screencols)
              wl == WindowSizeLog(io, w1)
          IN  /\ screenrows' = ws.rows
              /\ screencols' = ws.cols
              /\ IF ws.ret = 0 - 1
                 THEN /\ log' = DieLog(log \o wl, "getWindowSize")
                                \o << Ev("exit", "1", "-") >>
                      /\ lastWrite' = CursorHome
                      /\ exitCode' = 1
                      /\ pc' = ExitPc(hook)
                 ELSE /\ log' = log \o wl
                      /\ lastWrite' = lastWrite
                      /\ pc' = "refresh"
                      /\ UNCHANGED exitCode
    /\ UNCHANGED << term, orig_termios, hook, ab, drawn, rd, consumed, key >>

(***************************************************************************)
(* editorRefreshScreen(), in two steps: the appends, then the write and    *)
(* abFree.                                                                 *)
(***************************************************************************)
DrawFrame ==
    /\ pc = "refresh"
    /\ FrameCount(log) < MaxFrames
    /\ LET calls == RefreshCalls(screenrows, screencols, cx, cy)
       IN  /\ drawn' = calls
           /\ \E mode \in AllocModes, k \in 1..Len(calls) :
                 ab' = AppendAll(ABUF_INIT, calls, mode, k)
    /\ pc' = "flush"
    /\ UNCHANGED << term, orig_termios, hook, exitCode, cx, cy, screenrows,
                    screencols, lastWrite, log, rd, consumed, key >>

\* what the one write of editorRefreshScreen can return for len bytes
WriteResults(len) == { len, len \div 2, 0 - 1 }

\* a flush that frees the buffer only after a complete write
abAfterFlush_KeptOnShortWrite(buf, wret) == IF wret = buf.len THEN ABUF_INIT ELSE buf

\* the buffer after write(STDOUT_FILENO, ab.b, ab.len) returned wret and
\* abFree ran: the storage is gone and the struct leaves scope
abAfterFlush(buf, wret) == ABUF_INIT

FlushFrame ==
    /\ pc = "flush"
    /\ lastWrite' = SubSeq(ab.b, 1, ab.len)
    /\ log' = Append(log, Ev("write", "frame", "-"))
    /\ \E wret \in WriteResults(ab.len) : ab' = abAfterFlush(ab, wret)
    /\ drawn' = << >>
    /\ pc' = "readKey"
    /\ rd' = NoRead
    /\ consumed' = << >>
    /\ UNCHANGED << term, orig_termios, hook, exitCode, cx, cy, screenrows,
                    screencols, key >>

(***************************************************************************)
(* editorReadKey(), one read() per step.                                   *)
(***************************************************************************)
\* a key reader that gives up on a timed-out read, so that the loop draws
\* the next frame
ReadFirst_RedrawOnTimeout ==
    /\ pc = "readKey"
    /\ \E r \in ReadResults :
          /\ rd' = r
          /\ IF r.n = 1
             THEN /\ consumed' = << r.c >>
                  /\ IF CharOf(r.c) = ESC
                     THEN pc' = "readSeq0" /\ key' = key
                     ELSE pc' = "dispatch" /\ key' = CharOf(r.c)
                  /\ UNCHANGED << log, lastWrite, exitCode >>
             ELSE IF r.n = 0 - 1 /\ r.errno # "EAGAIN"
                  THEN /\ log' = DieLog(log, "read") \o << Ev("exit", "1", "-") >>
                       /\ lastWrite' = CursorHome
                       /\ exitCode' = 1
                       /\ pc' = ExitPc(hook)
                       /\ UNCHANGED << consumed, key >>
                  ELSE /\ pc' = "refresh"
                       /\ UNCHANGED << consumed, key, log, lastWrite, exitCode >>
    /\ UNCHANGED << term, orig_termios, hook, cx, cy, screenrows, screencols, ab, drawn >>

\* the loop on the first byte
ReadFirst ==
    /\ pc = "readKey"
    /\ \E r \in ReadResults :
          /\ rd' = r
          /\ IF r.n = 1
             THEN /\ consumed' = << r.c >>
                  /\ IF CharOf(r.c) = ESC
                     THEN pc' = "readSeq0" /\ key' = key
                     ELSE pc' = "dispatch" /\ key' = CharOf(r.c)
                  /\ UNCHANGED << log, lastWrite, exitCode >>
             ELSE IF r.n = 0 - 1 /\ r.errno # "EAGAIN"
                  THEN /\ log' = DieLog(log, "read") \o << Ev("exit", "1", "-") >>
                       /\ lastWrite' = CursorHome
                       /\ exitCode' = 1
                       /\ pc' = ExitPc(hook)
                       /\ UNCHANGED << consumed, key >>
                  ELSE UNCHANGED << pc, consumed, key, log, lastWrite, exitCode >>
    /\ UNCHANGED << term, orig_termios, hook, cx, cy, screenrows, screencols, ab, drawn >>

\* read(STDIN_FILENO, &seq[0], 1)
ReadSeq0 ==
    /\ pc = "readSeq0"
    /\ \E r \in ReadResults :
          /\ rd' = r
          /\ IF r.n # 1
             THEN pc' = "dispatch" /\ key' = ESC /\ consumed' = consumed
             ELSE pc' = "readSeq1" /\ key' = key /\ consumed' = Append(consumed, r.c)
    /\ UNCHANGED << term, orig_termios, hook, exitCode, cx, cy, screenrows,
                    screencols, ab, drawn, lastWrite, log >>

\* a key reader that hands on the last byte of a sequence it does not
\* recognise
ReadSeq1_ReturnsLastByte ==
    /\ pc = "readSeq1"
    /\ \E r \in ReadResults :
          /\ rd' = r
          /\ pc' = "dispatch"
          /\ IF r.n # 1
             THEN key' = ESC /\ consumed' = consumed
             ELSE /\ key' = IF DecodeSeq(CharOf(consumed[2]), CharOf(r.c)) = ESC
                            THEN CharOf(r.c)
                            ELSE DecodeSeq(CharOf(consumed[2]), CharOf(r.c))
                  /\ consumed' = Append(consumed, r.c)
    /\ UNCHANGED << term, orig_termios, hook, exitCode, cx, cy, screenrows,
                    screencols, ab, drawn, lastWrite, log >>

\* read(STDIN_FILENO, &seq[1], 1) and the decoding
ReadSeq1 ==
    /\ pc = "readSeq1"
    /\ \E r \in ReadResults :
          /\ rd' = r
          /\ pc' = "dispatch"
          /\ IF r.n # 1
             THEN key' = ESC /\ consumed' = consumed
             ELSE /\ key' = DecodeSeq(CharOf(consumed[2]), CharOf(r.c))
                  /\ consumed' = Append(consumed, r.c)
    /\ UNCHANGED << term, orig_termios, hook, exitCode, cx, cy, screenrows,
                    screencols, ab, drawn, lastWrite, log >>

(***************************************************************************)
(* editorProcessKeypress() after editorReadKey returned, with              *)
(* editorMoveCursor().                                                     *)
(***************************************************************************)
\* a cursor that stops at the top and left edges of the screen
editorMoveCursor_StopsAtEdge(k) ==
    CASE k = 104 -> [ cx |-> IF cx > 0 THEN cx - 1 ELSE cx, cy |-> cy ]
      [] k = 106 -> [ cx |-> cx, cy |-> IF cy > 0 THEN cy - 1 ELSE cy ]
      [] k = 107 -> [ cx |-> cx, cy |-> cy + 1 ]
      [] k = 108 -> [ cx |-> cx + 1, cy |-> cy ]
      [] OTHER   -> [ cx |-> cx, cy |-> cy ]

\* editorMoveCursor(key): the values of E.cx and E.cy afterwards
editorMoveCursor(k) ==
    CASE k = 104 -> [ cx |-> cx - 1, cy |-> cy ]
      [] k = 106 -> [ cx |-> cx, cy |-> cy - 1 ]
      [] k = 107 -> [ cx |-> cx, cy |-> cy + 1 ]
      [] k = 108 -> [ cx |-> cx + 1, cy |-> cy ]
      [] OTHER   -> [ cx |-> cx, cy |-> cy ]

\* a quit branch that calls exit(0) without clearing the screen
QuitLog_NoClear(l) == Append(l, Ev("exit", "0", "-"))

\* the quit branch: two writes, then exit(0)
QuitLog(l) ==
    l \o << Ev("write", "clear", "-"), Ev("write", "home", "-"), Ev("exit", "0", "-") >>

ProcessKey ==
    /\ pc = "dispatch"
    /\ IF key = CTRL_KEY(113)
       THEN /\ log' = QuitLog(log)
            /\ lastWrite' = CursorHome
            /\ exitCode' = 0
            /\ pc' = ExitPc(hook)
            /\ UNCHANGED << cx, cy >>
       ELSE /\ IF key \in { 104, 106, 107, 108 }
               THEN cx' = editorMoveCursor(key).cx /\ cy' = editorMoveCursor(key).cy
               ELSE UNCHANGED << cx, cy >>
            /\ pc' = "refresh"
            /\ UNCHANGED << log, lastWrite, exitCode >>
    /\ rd' = NoRead
    /\ consumed' = << >>
    /\ key' = 0
    /\ UNCHANGED << term, orig_termios, hook, screenrows, screencols, ab, drawn >>

(***************************************************************************)
(* disableRawMode(), run by exit() as the registered handler.  When its    *)
(* tcsetattr fails it calls die(), whose exit(1) is a second call of       *)
(* exit().                                                                 *)
(***************************************************************************)
\* the attributes of the terminal after tcsetattr(fd, TCSAFLUSH, attrs)
tcsetattr(cur, attrs, ok) == IF ok THEN attrs ELSE cur

disableRawMode ==
    /\ pc = "atexit"
    /\ hook' = "called"
    /\ \E ok \in BOOLEAN :
          /\ term' = tcsetattr(term, orig_termios, ok)
          /\ IF ok
             THEN /\ log' = Append(log, Ev("tcsetattr", "orig", "ok"))
                  /\ pc' = "done"
                  /\ UNCHANGED << lastWrite, exitCode >>
             ELSE /\ log' = DieLog(Append(log, Ev("tcsetattr", "orig", "fail")),
                                   "tcsetattr")
                            \o << Ev("exit", "1", "-") >>
                  /\ lastWrite' = CursorHome
                  /\ exitCode' = 1
                  /\ \E outcome \in NestedExitOutcomes :
                        pc' = IF outcome = "trap" THEN "crashed" ELSE "done"
    /\ UNCHANGED << orig_termios, cx, cy, screenrows, screencols, ab, drawn,
                    rd, consumed, key >>

Next ==
    \/ enableRawMode
    \/ initEditor
    \/ DrawFrame
    \/ FlushFrame
    \/ ReadFirst
    \/ ReadSeq0
    \/ ReadSeq1
    \/ ProcessKey
    \/ disableRawMode

Spec == Init /\ [][Next]_vars

(***************************************************************************)
(* The renderer on larger screens: the session right after enableRawMode   *)
(* and initEditor succeeded, for window sizes up to the banner's width and *)
(* the usual 80 columns, rendering its first frame.                        *)
(***************************************************************************)
RenderCols ==
    (1..MaxCols) \cup ((Len(WelcomeText) - 1)..(Len(WelcomeText) + 3)) \cup { 80 }

InitRender ==
    /\ pc = "refresh"
    /\ orig_termios \in InitialTermios
    /\ term = RawOf(orig_termios)
    /\ hook = "registered"
    /\ exitCode = 0 - 1
    /\ cx = 0
    /\ cy = 0
    /\ screenrows \in 0..MaxRows
    /\ screencols \in RenderCols
    /\ ab = ABUF_INIT
    /\ drawn = << >>
    /\ lastWrite = << >>
    /\ log = << Ev("tcsetattr", "raw", "ok") >>
    /\ rd = NoRead
    /\ consumed = << >>
    /\ key = 0

NextRender ==
    \/ DrawFrame
    \/ FlushFrame

SpecRender == InitRender /\ [][NextRender]_vars

(***************************************************************************)
(* The append buffer on its own: one buffer, starting as ABUF_INIT, and    *)
(* one abAppend call per step with the strings the renderer passes;        *)
(* realloc gives a block or NULL.                                          *)
(***************************************************************************)
AppendArgs == { Tilde, Space, EraseLine, CRLF, SubSeq(WelcomeText, 1, 2) }

InitAppend ==
    /\ pc = "append"
    /\ orig_termios \in InitialTermios
    /\ term = RawOf(orig_termios)
    /\ hook = "registered"
    /\ exitCode = 0 - 1
    /\ cx = 0
    /\ cy = 0
    /\ screenrows = 1
    /\ screencols = 1
    /\ ab = ABUF_INIT
    /\ drawn = << >>
    /\ lastWrite = << >>
    /\ log = << >>
    /\ rd = NoRead
    /\ consumed = << >>
    /\ key = 0

AppendStep ==
    /\ pc = "append"
    /\ Len(drawn) < MaxAppends
    /\ \E s \in AppendArgs, ok \in BOOLEAN :
          /\ ab' = abAppend(ab, s, ok)
          /\ drawn' = Append(drawn, s)
          /\ log' = Append(log, Ev("realloc", "-", IF ok THEN "ok" ELSE "null"))
    /\ UNCHANGED << pc, term, orig_termios, hook, exitCode, cx, cy, screenrows,
                    screencols, lastWrite, rd, consumed, key >>

SpecAppend == InitAppend /\ [][AppendStep]_vars

(***************************************************************************)
(* The raw-mode session on its own: enableRawMode and disableRawMode       *)
(* called in pairs on terminals of many configurations, every system call  *)
(* succeeding.  tcgetattr is logged with the attributes it fetched.        *)
(***************************************************************************)
PairTermios ==
    [ iflag : SUBSET { "ICRNL", "IXON", "IGNBRK" },
      oflag : SUBSET { "OPOST" },
      cflag : SUBSET { "CSIZE_LO", "PARENB" },
      lflag : SUBSET { "ECHO", "ISIG" },
      vmin  : { 0, 1 }, vtime : { 0, 1 }, vintr : { 3 }, veof : { 4 } ]

InitPairs ==
    /\ pc = "cooked"
    /\ term \in PairTermios
    /\ orig_termios = ZeroTermios
    /\ hook = "none"
    /\ exitCode = 0 - 1
    /\ cx = 0
    /\ cy = 0
    /\ screenrows = 0
    /\ screencols = 0
    /\ ab = ABUF_INIT
    /\ drawn = << >>
    /\ lastWrite = << >>
    /\ log = << >>
    /\ rd = NoRead
    /\ consumed = << >>
    /\ key = 0

\* an enableRawMode that fetches the attributes after it applied the raw
\* configuration
EnterRaw_SnapshotAfterApply ==
    /\ pc = "cooked"
    /\ Cardinality({ i \in 1..Len(log) : log[i].ev = "tcgetattr" }) < MaxPairs
    /\ orig_termios' = RawOf(term)
    /\ hook' = "registered"
    /\ term' = RawOf(term)
    /\ log' = log \o << Ev("tcgetattr", "-", term), Ev("tcsetattr", "raw", "ok") >>
    /\ pc' = "raw"
    /\ UNCHANGED << exitCode, cx, cy, screenrows, screencols, ab, drawn,
                    lastWrite, rd, consumed, key >>

\* enableRawMode() with tcgetattr and tcsetattr succeeding
EnterRaw ==
    /\ pc = "cooked"
    /\ Cardinality({ i \in 1..Len(log) : log[i].ev = "tcgetattr" }) < MaxPairs
    /\ orig_termios' = term
    /\ hook' = "registered"
    /\ term' = tcsetattr(term, RawOf(term), TRUE)
    /\ log' = log \o << Ev("tcgetattr", "-", term), Ev("tcsetattr", "raw", "ok") >>
    /\ pc' = "raw"
    /\ UNCHANGED << exitCode, cx, cy, screenrows, screencols, ab, drawn,
                    lastWrite, rd, consumed, key >>

\* disableRawMode() with tcsetattr succeeding
LeaveRaw ==
    /\ pc = "raw"
    /\ term' = tcsetattr(term, orig_termios, TRUE)
    /\ log' = Append(log, Ev("tcsetattr", "orig", "ok"))
    /\ pc' = "cooked"
    /\ UNCHANGED << orig_termios, hook, exitCode, cx, cy, screenrows, screencols,
                    ab, drawn, lastWrite, rd, consumed, key >>

NextPairs ==
    \/ EnterRaw
    \/ LeaveRaw

SpecPairs == InitPairs /\ [][NextPairs]_vars

(***************************************************************************)
(* Vocabulary of the properties.                                           *)
(***************************************************************************)
\* the process has ended: exit() returned to the system, or it was trapped
Ended == pc \in { "done", "crashed" }

\* exit() has been called
Terminating == pc \in { "atexit", "done", "crashed" }

\* the snapshot has been captured (the hook is registered right after)
Captured == hook # "none"

LogIndex(ev, arg) == { i \in 1..Len(log) : log[i].ev = ev /\ log[i].arg = arg }

\* the tcsetattr calls made so far, as positions of the log
TcsetattrCalls == { i \in 1..Len(log) : log[i].ev = "tcsetattr" }

Max(S) == CHOOSE x \in S : \A y \in S : y <= x

\* the quit key has been dispatched
QuitDispatched == LogIndex("exit", "0") # {}

\* die() has run
Fatal == \E i \in 1..Len(log) : log[i].ev = "perror"

(***************************************************************************)
(* C1: once the snapshot is captured, whenever the process has ended the   *)
(* terminal holds the snapshot again.                                      *)
(***************************************************************************)
\* C1 as stated: after the process has ended the terminal's attributes are
\* the captured snapshot, on every path
C1_NeverLeftRaw == (Ended /\ Captured) => term = orig_termios

\* C1 amended: whenever the process has ended after a capture, the last
\* tcsetattr call made is the exit hook's apply of the snapshot, and the
\* terminal holds the snapshot if that call succeeded
C1_SnapshotAppliedLast ==
    (Ended /\ Captured) =>
        /\ TcsetattrCalls # {}
        /\ LET last == log[Max(TcsetattrCalls)]
           IN  /\ last.arg = "orig"
               /\ last.ret = "ok" => term = orig_termios

\* the quit key ended a session that had entered raw mode, and the
\* terminal is back at the snapshot
C1_Witness ==
    /\ pc = "done"
    /\ QuitDispatched
    /\ \E i \in TcsetattrCalls : log[i].arg = "raw" /\ log[i].ret = "ok"
    /\ term = orig_termios
    /\ term # RawOf(orig_termios)

(***************************************************************************)
(* C2: the quit key clears the screen, restores the terminal and ends the  *)
(* process with status 0; nothing is rendered or read afterwards.          *)
(***************************************************************************)
\* the log from the quit branch on
AfterQuit == SubSeq(log, Max(LogIndex("exit", "0")) + 1, Len(log))

\* the two clear-screen writes come right before exit(0), and neither a
\* frame nor a read follows
QuitShape ==
    LET q == Max(LogIndex("exit", "0"))
    IN  /\ q >= 3
        /\ log[q - 2] = Ev("write", "clear", "-")
        /\ log[q - 1] = Ev("write", "home", "-")
        /\ \A i \in (q + 1)..Len(log) : ~(log[i].ev = "write" /\ log[i].arg = "frame")
        /\ Terminating
        /\ rd = NoRead

\* C2 as stated: after the quit key the screen is cleared, the terminal is
\* restored to the snapshot and the process ends with status 0
C2_QuitRestoresAndExits0 ==
    QuitDispatched =>
        /\ QuitShape
        /\ Ended => (pc = "done" /\ exitCode = 0 /\ term = orig_termios)

\* C2 amended, the states: after the quit key the screen is cleared and the
\* next call is the hook's apply of the snapshot; when that apply succeeds
\* the terminal holds the snapshot and the process ends with status 0
C2_AfterQuit ==
    QuitDispatched =>
        /\ QuitShape
        /\ Ended => /\ Len(AfterQuit) >= 1
                    /\ AfterQuit[1].ev = "tcsetattr"
                    /\ AfterQuit[1].arg = "orig"
                    /\ AfterQuit[1].ret = "ok" =>
                          (pc = "done" /\ exitCode = 0 /\ term = orig_termios)

\* C2 amended, the steps: dispatching the quit key writes the two clear
\* sequences and calls exit(0), and a terminating process stays so, renders
\* no frame and reads no key
C2_QuitStep ==
    /\ (pc = "dispatch" /\ key = CTRL_KEY(113)) =>
          /\ log' = log \o << Ev("write", "clear", "-"), Ev("write", "home", "-"),
                              Ev("exit", "0", "-") >>
          /\ pc' = "atexit"
    /\ Terminating =>
          /\ Terminating'
          /\ FrameCount(log') = FrameCount(log)
          /\ rd' = rd
          /\ consumed' = consumed

\* C2 amended: when the key reader returns the quit key, the program emits
\* the erase-screen and cursor-home sequences, then applies the snapshot
\* from the exit hook and, when that apply succeeds, ends with status 0
\* and the terminal restored; terminating is absorbing
C2_QuitThenRestore == [] C2_AfterQuit /\ [][C2_QuitStep]_vars

\* a session that rendered a frame, read the quit key and ended with
\* status 0, the terminal restored
C2_Witness ==
    /\ pc = "done"
    /\ QuitDispatched
    /\ exitCode = 0
    /\ FrameCount(log) >= 1
    /\ term = orig_termios
    /\ term # RawOf(orig_termios)

(***************************************************************************)
(* C3: exit status 0 for the quit key, 1 for a fatal failure, and what     *)
(* die() emits.                                                            *)
(***************************************************************************)
DieNames == { "tcgetattr", "tcsetattr", "read", "getWindowSize" }

\* C3: the exit status is 0 exactly when the quit key ended the process and
\* 1 when a fatal system-call failure did; die() emits the screen-clear,
\* then the diagnostic naming the failing call, and (where a snapshot was
\* captured) the restoration runs before the process ends
C3_ExitStatus ==
    Ended =>
        /\ (pc = "done" /\ exitCode = 0) <=> (QuitDispatched /\ ~Fatal)
        /\ Fatal => (pc = "done" /\ exitCode = 1)
        /\ \A i \in 1..Len(log) :
              log[i].ev = "perror" =>
                  /\ i >= 3
                  /\ log[i - 2] = Ev("write", "clear", "-")
                  /\ log[i - 1] = Ev("write", "home", "-")
                  /\ log[i].arg \in DieNames
        /\ (Fatal /\ Captured) => LogIndex("tcsetattr", "orig") # {}

(***************************************************************************)
(* C4: timed-out reads are retried, every other read error is fatal.       *)
(***************************************************************************)
TimedOut(r) == r.n = 0 \/ (r.n = 0 - 1 /\ r.errno = "EAGAIN")

ReadError(r) == r.n = 0 - 1 /\ r.errno # "EAGAIN"

\* C4: a timed-out read of a key's first byte leaves the reader retrying
\* with no key event, and after any read that failed with another error,
\* first byte or follow-up, the process is in die("read"), never at a key
\* event
C4_ReadErrorsFatal ==
    /\ (TimedOut(rd) /\ consumed = << >>) => pc = "readKey"
    /\ ReadError(rd) =>
          /\ Terminating
          /\ LogIndex("perror", "read") # {}

C6_LiteralBytes ==
    (pc = "dispatch" /\ consumed[1] # 27) =>
        /\ Len(consumed) = 1
        /\ key \in (0 - 128)..127
        /\ ByteOf(key) = consumed[1]

\* the byte 0xC8 has been returned as a key event
C6_Witness ==
    /\ pc = "dispatch"
    /\ consumed = << 200 >>
    /\ ByteOf(key) = 200

(***************************************************************************)
(* C7: one write per frame, of the whole buffer, which is then released.   *)
(***************************************************************************)
C7_Step ==
    /\ pc = "refresh" => (log' = log /\ lastWrite' = lastWrite)
    /\ pc = "flush" =>
          /\ log' = Append(log, Ev("write", "frame", "-"))
          /\ lastWrite' = ab.b
          /\ Len(ab.b) = ab.len
          /\ ab' = ABUF_INIT
          /\ pc' = "readKey"

\* C7: every editorRefreshScreen makes exactly one write, of the whole
\* accumulated buffer; the buffer is empty when a frame starts and released
\* after the write, whatever the write returned
C7_OneWritePerFrame == [] (pc = "refresh" => ab = ABUF_INIT) /\ [][C7_Step]_vars

\* a second frame was written, with the cursor moved, and its buffer is gone
C7_Witness ==
    /\ pc = "readKey"
    /\ FrameCount(log) = 2
    /\ Len(log) >= 1
    /\ log[Len(log)] = Ev("write", "frame", "-")
    /\ lastWrite # << >>
    /\ (cx # 0 \/ cy # 0)
    /\ ab = ABUF_INIT

(***************************************************************************)
(* C8: the layout of a frame.                                              *)
(***************************************************************************)
RECURSIVE ConcatRange(_, _, _)
ConcatRange(seqs, lo, hi) ==
    IF lo > hi THEN << >>
    ELSE IF lo = hi THEN seqs[lo]
    ELSE ConcatRange(seqs, lo, (lo + hi) \div 2)
         \o ConcatRange(seqs, (lo + hi) \div 2 + 1, hi)

Concat(seqs) == ConcatRange(seqs, 1, Len(seqs))

\* C8: when no allocation failed, the frame starts with ESC [ ? 2 5 l and
\* ESC [ H and ends with ESC [ cy+1 ; cx+1 H and ESC [ ? 2 5 h
C8_FrameLayout ==
    (pc = "flush" /\ ab.len = Len(Concat(drawn))) =>
        LET head == << 27, 91, 63, 50, 53, 108, 27, 91, 72 >>
            tail == << 27, 91 >> \o FormatInt(cy + 1) \o << 59 >> \o FormatInt(cx + 1)
                    \o << 72, 27, 91, 63, 50, 53, 104 >>
        IN  /\ ab.len >= Len(head) + Len(tail)
            /\ SubSeq(ab.b, 1, Len(head)) = head
            /\ SubSeq(ab.b, ab.len - Len(tail) + 1, ab.len) = tail

(***************************************************************************)
(* C9, C10: the rows and the banner row.                                   *)
(***************************************************************************)
\* what editorDrawRows emitted: the frame's appends without the two before
\* and the two after it
RowsSection == Concat(SubSeq(drawn, 3, Len(drawn) - 2))

\* the positions at which pat occurs in s
Occ(s, pat) ==
    { i \in 1..(Len(s) - Len(pat) + 1) : SubSeq(s, i, i + Len(pat) - 1) = pat }

\* the k-th smallest element of S
Nth(S, k) == CHOOSE x \in S : Cardinality({ y \in S : y < x }) = k - 1

\* the i-th row (from 1): what lies between the end of the row before it,
\* "\r\n" included, and its own ESC [ K
RowBody(i) ==
    LET E == Occ(RowsSection, << 27, 91, 75 >>)
        from == IF i = 1 THEN 1 ELSE Nth(E, i - 1) + 5
    IN  SubSeq(RowsSection, from, Nth(E, i) - 1)

\* C9: for R >= 1 the rows section has exactly R rows, each ended by one
\* ESC [ K, and R-1 "\r\n" pairs, one right after every row but the last;
\* every row but row R/3 is the single '~', and row R/3 is the banner row;
\* these appends are the bytes of the buffer when no allocation failed
C9_RowsSection ==
    (pc = "flush" /\ screenrows >= 1) =>
        LET E == Occ(RowsSection, << 27, 91, 75 >>)
            N == Occ(RowsSection, << 13, 10 >>)
            R == screenrows
            L == Min(Len(WelcomeText), screencols)
            b == RowBody(R \div 3 + 1)
        IN  /\ Cardinality(E) = R
            /\ Cardinality(N) = R - 1
            /\ \A i \in 1..R : (Nth(E, i) + 3 \in N) <=> (i < R)
            /\ Nth(E, R) + 2 = Len(RowsSection)
            /\ \A i \in 1..R : (i - 1 # R \div 3) => RowBody(i) = << 126 >>
            /\ b # << 126 >>
            /\ Len(b) >= L
            /\ SubSeq(b, Len(b) - L + 1, Len(b)) = SubSeq(WelcomeText, 1, L)
            /\ (ab.len = Len(Concat(drawn))) => ab.b = Concat(drawn)

\* four rows of 80 columns have been drawn
C9_Witness ==
    /\ pc = "flush"
    /\ screenrows = 4
    /\ screencols = 80
    /\ RowBody(1) = << 126 >>
    /\ Len(RowBody(2)) > 1

\* C10: with L = min(29, C) and padding = (C - L) / 2 the banner row is '~',
\* padding-1 spaces and the first L bytes of the banner when padding > 0,
\* and the first L bytes of the banner alone when padding = 0; it is never
\* wider than C; for C = 80 it is '~', 24 spaces and the whole banner
C10_BannerCentering ==
    (pc = "flush" /\ screenrows >= 1) =>
        LET C       == screencols
            L       == Min(29, C)
            padding == (C - L) \div 2
            banner  == SubSeq(WelcomeText, 1, L)
            row     == RowBody(screenrows \div 3 + 1)
        IN  /\ padding > 0 => row = << 126 >> \o [ i \in 1..(padding - 1) |-> 32 ] \o banner
            /\ padding = 0 => row = banner
            /\ Len(row) <= C
            /\ C = 80 => /\ Len(WelcomeText) = 29
                         /\ row = << 126 >> \o [ i \in 1..24 |-> 32 ] \o WelcomeText

\* the banner row of an 80-column screen has been drawn
C10_Witness ==
    /\ pc = "flush"
    /\ screenrows >= 1
    /\ screencols = 80
    /\ Len(RowBody(screenrows \div 3 + 1)) = 54

(***************************************************************************)
(* C11: the cursor stays on the screen.                                    *)
(***************************************************************************)
\* the session loop is running: initEditor returned and exit() has not
\* been called
Running == pc \in { "refresh", "flush", "readKey", "readSeq0", "readSeq1", "dispatch" }

\* C11: in every state of the session loop, on a screen of at least one
\* row and one column, 0 <= cy < screenrows and 0 <= cx < screencols, so
\* the parameters of the cursor-position sequence are between 1 and the
\* screen size
C11_CursorOnScreen ==
    (Running /\ screenrows >= 1 /\ screencols >= 1) =>
        /\ 0 <= cy /\ cy < screenrows
        /\ 0 <= cx /\ cx < screencols

(***************************************************************************)
(* C12: abAppend appends everything or changes nothing.                    *)
(***************************************************************************)
C12_Step ==
    pc = "append" =>
        LET s  == drawn'[Len(drawn')]
            ok == log'[Len(log')].ret = "ok"
        IN  IF ok
            THEN /\ ab'.len = ab.len + Len(s)
                 /\ Len(ab'.b) = ab'.len
                 /\ SubSeq(ab'.b, 1, ab.len) = SubSeq(ab.b, 1, ab.len)
                 /\ SubSeq(ab'.b, ab.len + 1, ab'.len) = s
            ELSE ab' = ab

\* C12: an abAppend whose allocation succeeds makes the length old + len,
\* keeps the first old bytes and puts the appended bytes after them; one
\* whose allocation fails leaves block, length and content as they were
C12_AllOrNothing == [][C12_Step]_vars

\* three appends were made, the second of which failed, and the buffer
\* holds the first and the third
C12_Witness ==
    /\ pc = "append"
    /\ Len(drawn) = 3
    /\ log[1].ret = "ok" /\ log[2].ret = "null" /\ log[3].ret = "ok"
    /\ ab.b = drawn[1] \o drawn[3]
    /\ ab.len = Len(drawn[1]) + Len(drawn[3])

(***************************************************************************)
(* C13: the cursor-position fallback of getWindowSize.                     *)
(***************************************************************************)
\* getWindowSize took the fallback and the reply "\x1b[2;3R" was read and
\* parsed: both conversions of sscanf were stored
ReplyParsed ==
    /\ LogIndex("write", "query") # {}
    /\ screenrows = 2
    /\ screencols = 3

\* C13: when the direct query fails or reports zero columns and the
\* terminal answers the cursor-position query with a well-formed reply, the
\* window size is the reported one and the session loop runs: initEditor
\* does not die
C13_FallbackSucceeds ==
    ReplyParsed => /\ LogIndex("perror", "getWindowSize") = {}
                   /\ ~Terminating

(***************************************************************************)
(* C14: the raw configuration.                                             *)
(***************************************************************************)
\* the flags of the model's terminals
Flags ==
    { "BRKINT", "ICRNL", "INPCK", "ISTRIP", "IXON", "IMAXBEL", "IGNBRK",
      "OPOST", "ONLCR", "CREAD", "PARENB", "CSIZE_LO", "CSIZE_HI",
      "ECHO", "ICANON", "IEXTEN", "ISIG", "ECHOE" }

\* the latest tcsetattr call applied the raw configuration, successfully
RawApplied ==
    /\ TcsetattrCalls # {}
    /\ log[Max(TcsetattrCalls)] = Ev("tcsetattr", "raw", "ok")

\* C14: the configuration enableRawMode applied is the snapshot with BRKINT,
\* ICRNL, INPCK, ISTRIP, IXON, OPOST, ECHO, ICANON, IEXTEN and ISIG cleared,
\* CS8 set, VMIN = 0 and VTIME = 1, and with every other flag and control
\* character as in the snapshot
C14_RawConfiguration ==
    RawApplied =>
        /\ \A f \in Flags :
              /\ f \in term.iflag <=>
                    (f \in orig_termios.iflag
                        /\ f \notin { "BRKINT", "ICRNL", "INPCK", "ISTRIP", "IXON" })
              /\ f \in term.oflag <=> (f \in orig_termios.oflag /\ f # "OPOST")
              /\ f \in term.lflag <=>
                    (f \in orig_termios.lflag
                        /\ f \notin { "ECHO", "ICANON", "IEXTEN", "ISIG" })
              /\ f \in term.cflag <=>
                    (f \in orig_termios.cflag \/ f \in { "CSIZE_LO", "CSIZE_HI" })
        /\ term.vmin = 0
        /\ term.vtime = 1
        /\ term.vintr = orig_termios.vintr
        /\ term.veof = orig_termios.veof
        /\ DOMAIN term = DOMAIN orig_termios

\* raw mode was entered from a 7-bit terminal with parity checking: INPCK
\* and ISTRIP went off, the character size became CS8, PARENB stayed
C14_Witness ==
    /\ RawApplied
    /\ pc = "readKey"
    /\ { "INPCK", "ISTRIP" } \subseteq orig_termios.iflag
    /\ "CSIZE_LO" \notin orig_termios.cflag
    /\ "CSIZE_LO" \in term.cflag
    /\ "PARENB" \in term.cflag
    /\ term.veof = 26

(***************************************************************************)
(* C15: enter/leave pairs give the terminal back as it was.                *)
(***************************************************************************)
\* C15: after each leave of a sequence of enter/leave pairs the terminal's
\* attributes are those it had before the first enter (those the first
\* tcgetattr fetched)
C15_PairsRestore ==
    (pc = "cooked" /\ log # << >>) => term = log[1].ret

\* two pairs were run on a terminal that raw mode changes, and the
\* terminal has its first attributes again
C15_Witness ==
    /\ pc = "cooked"
    /\ Cardinality({ i \in 1..Len(log) : log[i].ev = "tcgetattr" }) = 2
    /\ Cardinality({ i \in TcsetattrCalls : log[i].arg = "orig" }) = 2
    /\ term = log[1].ret
    /\ "ECHO" \in term.lflag
    /\ RawOf(term) # term

(***************************************************************************)
(* C16: one snapshot, taken before anything is applied.                    *)
(***************************************************************************)
C16_Step ==
    \* the snapshot is written only by the capture of enableRawMode, before
    \* any tcsetattr call, and that step is not taken again
    /\ orig_termios' # orig_termios =>
          /\ pc = "main"
          /\ hook = "none"
          /\ TcsetattrCalls = {}
          /\ orig_termios' = term
    /\ pc # "main" => pc' # "main"
    /\ Captured => orig_termios' = orig_termios
    \* without a capture nothing is applied to the terminal
    /\ hook' = "none" => term' = term

\* C16: the snapshot is captured once, before any attribute set is applied,
\* and never modified afterwards; the hook is registered only after a
\* successful capture, so after a failed capture no tcsetattr call is made
C16_SnapshotOnce ==
    /\ [][C16_Step]_vars
    /\ [] (hook = "none" => TcsetattrCalls = {})
    /\ [] (LogIndex("perror", "tcgetattr") # {} =>
              /\ hook = "none"
              /\ orig_termios = ZeroTermios
              /\ TcsetattrCalls = {}
              /\ term \in InitialTermios)

\* the capture failed and the process has ended without a tcsetattr call
C16_Witness ==
    /\ pc = "done"
    /\ LogIndex("perror", "tcgetattr") # {}
    /\ exitCode = 1
    /\ TcsetattrCalls = {}
    /\ term \in InitialTermios

(***************************************************************************)
(* C17: a directional key moves the cursor by one cell.                    *)
(***************************************************************************)
\* the key events of the four directions: 'j' up, 'k' down, 'h' left,
\* 'l' right
DirectionKeys == { 104, 106, 107, 108 }

C17_Step ==
    (pc = "dispatch" /\ key \in DirectionKeys) =>
        /\ key = 106 => (cy' = cy - 1 /\ cx' = cx)
        /\ key = 107 => (cy' = cy + 1 /\ cx' = cx)
        /\ key = 104 => (cx' = cx - 1 /\ cy' = cy)
        /\ key = 108 => (cx' = cx + 1 /\ cy' = cy)
        /\ consumed = << 27, 91, 65 >> => cy' = cy - 1
        /\ consumed = << 27, 91, 66 >> => cy' = cy + 1
        /\ consumed = << 27, 91, 67 >> => cx' = cx + 1
        /\ consumed = << 27, 91, 68 >> => cx' = cx - 1
        /\ UNCHANGED << screenrows, screencols, orig_termios >>

\* C17: the dispatch of a directional key changes one cursor coordinate by
\* one (up cy-1, down cy+1, left cx-1, right cx+1) and leaves the other
\* coordinate, the screen size and the snapshot as they were
C17_MoveByOne == [][C17_Step]_vars

\* the left key was dispatched with the cursor at the origin
C17_Witness ==
    /\ pc = "refresh"
    /\ FrameCount(log) = 1
    /\ cx = 0 - 1
    /\ cy = 0

(***************************************************************************)
(* C18: keys without an effect.                                            *)
(***************************************************************************)
\* the input of the four arrow keys
ArrowSeqs == { << 27, 91, 65 >>, << 27, 91, 66 >>, << 27, 91, 67 >>, << 27, 91, 68 >> }

C18_Step ==
    (pc = "dispatch" /\ key # CTRL_KEY(113) /\ consumed \notin ArrowSeqs) =>
        /\ UNCHANGED << cx, cy, screenrows, screencols >>
        /\ pc' = "refresh"

\* C18: the dispatch of a key event that is neither the quit key nor one of
\* the four arrow sequences (a literal byte, the bare escape) leaves cx, cy,
\* screenrows and screencols unchanged and the loop running
C18_OtherKeysNoEffect == [][C18_Step]_vars

(***************************************************************************)
(* C19: frames and key events alternate.                                   *)
(***************************************************************************)
\* editorReadKey is being executed
Reading == pc \in { "readKey", "readSeq0", "readSeq1" }

C19_Step ==
    \* a frame is written by the flush alone, and the key reader comes next
    /\ FrameCount(log') # FrameCount(log) =>
          /\ pc = "flush"
          /\ FrameCount(log') = FrameCount(log) + 1
          /\ pc' = "readKey"
    /\ pc = "refresh" => pc' = "flush"
    \* no frame is rendered while a key is read, timed-out reads included
    /\ Reading => /\ UNCHANGED << ab, drawn >>
                  /\ FrameCount(log') = FrameCount(log)
                  /\ pc' \in { "readKey", "readSeq0", "readSeq1", "dispatch" }
                        \/ Terminating'
    /\ (pc = "readKey" /\ (rd'.n = 0 \/ (rd'.n = 0 - 1 /\ rd'.errno = "EAGAIN"))) =>
          pc' = "readKey"
    \* a key event comes from the key reader and is dispatched once, and
    \* the next frame follows
    /\ pc' = "dispatch" => Reading
    /\ pc = "dispatch" => (pc' = "refresh" \/ Terminating')
    /\ pc' = "refresh" => pc \in { "initEditor", "dispatch" }

\* C19: while the loop runs frames and key events alternate, starting with
\* a frame: no key byte is read by the loop before the first frame, one key
\* event is dispatched between two frames, and no frame is rendered while
\* the key reader retries timed-out reads
C19_Alternation ==
    /\ [][C19_Step]_vars
    /\ [] (FrameCount(log) = 0 => (~Reading /\ pc # "dispatch" /\ rd = NoRead))

\* after the second frame the key reader is retrying a timed-out read
C19_Witness ==
    /\ pc = "readKey"
    /\ FrameCount(log) = 2
    /\ rd.n = 0

(***************************************************************************)
(* C20: no screen-clear before raw mode was entered.                       *)
(***************************************************************************)
\* C20: when tcgetattr fails the process reports the failure and ends with
\* a non-zero status without having written the erase-screen and
\* cursor-home sequences
C20_NoClearBeforeRaw ==
    LogIndex("perror", "tcgetattr") # {} =>
        /\ LogIndex("write", "clear") = {}
        /\ LogIndex("write", "home") = {}
        /\ exitCode # 0

(***************************************************************************)
(* C21: the bytes of an unrecognised escape sequence are swallowed.        *)
(***************************************************************************)
C21_Step ==
    \* every follow-up byte that a read delivers is taken
    /\ (pc \in { "readSeq0", "readSeq1" } /\ rd'.n = 1) =>
          consumed' = Append(consumed, rd'.c)
    /\ (pc \in { "readSeq0", "readSeq1" } /\ rd'.n # 1) => consumed' = consumed
    \* the bytes of one event are not carried over to the next
    /\ pc = "dispatch" => consumed' = << >>

\* C21: editorReadKey takes at most three bytes per event; after an escape
\* byte it takes each follow-up byte it reads (at most two); bytes that do
\* not complete an arrow sequence are dropped and the event is the bare
\* escape, so no byte in the second or third position, the quit byte
\* included, is dispatched as a key
C21_FollowUpsSwallowed ==
    /\ [][C21_Step]_vars
    /\ [] (pc = "dispatch" =>
              /\ Len(consumed) \in 1..3
              /\ Len(consumed) >= 2 => consumed[1] = ESC
              /\ (consumed[1] = ESC /\ consumed \notin ArrowSeqs) => key = ESC
              /\ Len(consumed) >= 2 => key \in { ESC, 104, 106, 107, 108 }
              /\ key = CTRL_KEY(113) => consumed = << 17 >>)

\* the quit byte came third after ESC [ and the event is the bare escape
C21_Witness ==
    /\ pc = "dispatch"
    /\ consumed = << 27, 91, 17 >>
    /\ key = ESC

(***************************************************************************)
(* C22: a failing restoration inside the exit hook.                        *)
(***************************************************************************)
\* the tcsetattr of disableRawMode has failed
RestoreFailed == \E i \in LogIndex("tcsetattr", "orig") : log[i].ret = "fail"

\* C22: the restoration hook runs at most once, and when its tcsetattr
\* fails die() clears the screen, prints "tcsetattr" and the process ends
\* with status 1, the hook not being entered again
C22_TerminationCompletes ==
    /\ Cardinality(LogIndex("tcsetattr", "orig")) <= 1
    /\ RestoreFailed =>
          /\ hook = "called"
          /\ SubSeq(log, Len(log) - 3, Len(log)) =
                << Ev("write", "clear", "-"), Ev("write", "home", "-"),
                   Ev("perror", "tcsetattr", "-"), Ev("exit", "1", "-") >>
          /\ pc = "done"
          /\ exitCode = 1

====
